---- MODULE Spec2Model ----
(***************************************************************************)
(* Model of the revenue-analysis core of data-analysis-agent:              *)
(*   data_loader.load_transactions, analysis.aggregate_weekly_revenue,     *)
(*   analysis.compute_core_kpis, analysis.build_summary,                   *)
(*   anomaly_detector.detect_revenue_anomalies_iforest and the try-block   *)
(*   of main_app.main that drives them.                                    *)
(*                                                                         *)
(* Numbers are float64 in the program.  They are modelled as tagged        *)
(* records: a finite integer value, +inf / -inf, or NaN, with IEEE rules   *)
(* for the products and sums that leave the finite range.                  *)
(***************************************************************************)
EXTENDS Integers, Sequences, FiniteSets, TLC

VARIABLES
    raw,            \* the uploaded raw table (what _read_any_file returns)
    cont,           \* the contamination rate, as a numerator over CDen
    pc,             \* position in the run
    df,             \* result of load_transactions
    weekly_df,      \* result of aggregate_weekly_revenue (main line 67)
    summary,        \* result of build_summary
    cacheWeekly,    \* st.cache_data store of aggregate_weekly_revenue
    cacheSummary,   \* st.cache_data store of build_summary
    forest,         \* fitted isolation forests: feature matrix -> score of each value
    ran,            \* function bodies executed so far in this run
    ret,            \* last memoized call: its arguments, result, and whether the body ran
    seen,           \* memoized calls that returned: function, table cells, parameters
    anoms,          \* detector results per contamination for the series in weekly_df
    periodRaises,   \* the pandas build: does pd.to_datetime refuse the period-typed
                    \* Date column that an empty frame yields?
    sampled,        \* the row positions DataFrame.sample(random_state=0) draws,
                    \* for each length of a large frame
    runs            \* the number of runs of main in the session so far

vars == <<periodRaises, sampled, runs, raw, cont, pc, df, weekly_df, summary,
          cacheWeekly, cacheSummary, forest, ran, ret, seen, anoms>>

-----------------------------------------------------------------------------
(* Bounds of the model *)

MaxRows == 2

MaxWeeks == 4

MaxScore == 2

\* runs of main in one session
MaxRuns == 2

\* Frames of this many rows or more are hashed by a sample of their rows
\* (Streamlit: 50 000 rows, 100 000 in earlier releases)
PANDAS_ROWS_LARGE == 3

\* The number of rows in that sample (Streamlit: 10 000)
PANDAS_SAMPLE_SIZE == 1

(* Program constants *)

CDen == 200

TREND_WEEKS == 8

TOP_N == 10

DaysPerWeek == 7

INVOICE_DATE_COL == "InvoiceDate"
QUANTITY_COL == "Quantity"
UNIT_PRICE_COL == "UnitPrice"
COUNTRY_COL == "Country"
CUSTOMER_ID_COL == "CustomerID"
DESCRIPTION_COL == "Description"
REVENUE_COL == "Revenue"

\* the key under which a row carries its index label
INDEX_LABEL == "<index>"

RequiredCols == {INVOICE_DATE_COL, QUANTITY_COL, UNIT_PRICE_COL}
OptionalCols == {COUNTRY_COL, CUSTOMER_ID_COL, DESCRIPTION_COL}

-----------------------------------------------------------------------------
(* float64 values and cells *)

Fin(n) == [k |-> "fin", v |-> n]
PosInf == [k |-> "inf", v |-> 1]
NegInf == [k |-> "inf", v |-> -1]
NaN == [k |-> "nan", v |-> 0]
\* a cell holding text that parses neither as a number nor as a date
Text == [k |-> "text", v |-> 0]
Day(d) == [k |-> "date", v |-> d]
NaT == [k |-> "nat", v |-> 0]
\* Python None in a numeric field of the KPI dict
NoneNum == [k |-> "none", v |-> 0]
\* Python None in a text field of the KPI dict
NoneStr == "None"
\* a null text cell (pandas reads an empty cell as NaN)
NA == "NaN"

IsNaN(x) == x.k = "nan"
IsFinite(x) == x.k = "fin"

Sign(n) == IF n > 0 THEN 1 ELSE IF n < 0 THEN -1 ELSE 0

\* float multiplication
Mul(a, b) ==
    IF IsNaN(a) \/ IsNaN(b) THEN NaN
    ELSE IF IsFinite(a) /\ IsFinite(b) THEN Fin(a.v * b.v)
    ELSE IF Sign(a.v) * Sign(b.v) = 0 THEN NaN
    ELSE [k |-> "inf", v |-> Sign(a.v) * Sign(b.v)]

\* float addition
Add(a, b) ==
    IF IsNaN(a) \/ IsNaN(b) THEN NaN
    ELSE IF IsFinite(a) /\ IsFinite(b) THEN Fin(a.v + b.v)
    ELSE IF IsFinite(a) THEN b
    ELSE IF IsFinite(b) THEN a
    ELSE IF a.v = b.v THEN a
    ELSE NaN

\* float equality: NaN equals nothing, itself included
FloatEq(a, b) == ~IsNaN(a) /\ ~IsNaN(b) /\ a = b

\* float a < b (false when either is NaN)
FloatLt(a, b) ==
    IF IsNaN(a) \/ IsNaN(b) THEN FALSE
    ELSE IF IsFinite(a) /\ IsFinite(b) THEN a.v < b.v
    ELSE IF IsFinite(a) THEN b.v = 1
    ELSE IF IsFinite(b) THEN a.v = -1
    ELSE a.v < b.v

\* Python truthiness of a float: only 0.0 is falsy (NaN and inf are truthy)
Truthy(x) == ~(IsFinite(x) /\ x.v = 0)

RECURSIVE SumSeq(_)
\* Series.sum() of a column without NaN: left-to-right float sum from 0.0
SumSeq(s) ==
    IF s = <<>> THEN Fin(0)
    ELSE Add(SumSeq(SubSeq(s, 1, Len(s) - 1)), s[Len(s)])

Min(S) == CHOOSE x \in S : \A y \in S : x <= y

RECURSIVE SortedSeq(_)
\* the elements of a finite set of integers, ascending
SortedSeq(S) ==
    IF S = {} THEN <<>>
    ELSE LET m == Min(S) IN <<m>> \o SortedSeq(S \ {m})

Range(s) == {s[i] : i \in 1..Len(s)}

Restrict(f, S) == [x \in S |-> f[x]]

-----------------------------------------------------------------------------
(* results of a call: a returned value or an escaped exception *)

Ok(x) == [tag |-> "ok", value |-> x]
Raise(exc, names) == [tag |-> "raise", exc |-> exc, names |-> names]
NoResult == [tag |-> "none"]

-----------------------------------------------------------------------------
(* data_loader.load_transactions *)

\* a raw or canonical table: its column names and its rows, each row a
\* function from the column names to cells
Table(cols, rows) == [cols |-> cols, rows |-> rows]

Column(rows, col) == [i \in 1..Len(rows) |-> rows[i][col]]

\* pd.to_datetime(..., errors="coerce"): a finite number is read as
\* nanoseconds since 1970-01-01 (every finite number of the model is less
\* than a day of them, so it falls on 1970-01-01 or, negative, on
\* 1969-12-31); what is no date becomes NaT
to_datetime(c) ==
    IF c.k = "date" THEN c
    ELSE IF c.k = "fin" THEN (IF c.v >= 0 THEN Day(0) ELSE Day(-1))
    ELSE NaT

\* pd.to_numeric(..., errors="coerce"): what is no number becomes NaN;
\* the texts "inf" and "-inf" are numbers
to_numeric(c) == IF c.k \in {"fin", "inf", "nan"} THEN c ELSE NaN

\* df[col] = pd.to_datetime(df[col], errors="coerce")
DatetimeCol(rows, col) ==
    [i \in 1..Len(rows) |-> [rows[i] EXCEPT ![col] = to_datetime(@)]]

\* df[col] = pd.to_numeric(df[col], errors="coerce")
NumericCol(rows, col) ==
    [i \in 1..Len(rows) |-> [rows[i] EXCEPT ![col] = to_numeric(@)]]

\* Series.notna(): NaN and NaT are null, infinities are not
notna(c) == c.k \notin {"nan", "nat"}

\* df.dropna(subset=...) on columns that exist
dropna(rows, subset) ==
    SelectSeq(rows, LAMBDA row : \A c \in subset : notna(row[c]))

\* variant: the message of the column check names the wrong column
MissingDateError_wrong_column == Raise("ValueError", {QUANTITY_COL})

\* the ValueError of the explicit column check
MissingDateError == Raise("ValueError", {INVOICE_DATE_COL})

\* df.dropna(subset=...) raises KeyError listing the labels that are no column
MissingSubsetError(cols, subset) == Raise("KeyError", subset \ cols)

\* the frame read from the file has the index 0, 1, 2, ...; the rows that
\* later steps keep, keep their labels
RangeIndex(rows) ==
    [i \in 1..Len(rows) |-> (INDEX_LABEL :> i - 1) @@ rows[i]]

load_transactions(r) ==
    IF INVOICE_DATE_COL \notin r.cols THEN MissingDateError
    ELSE
    LET dated == dropna(DatetimeCol(RangeIndex(r.rows), INVOICE_DATE_COL),
                        {INVOICE_DATE_COL})
        q == IF QUANTITY_COL \in r.cols
             THEN NumericCol(dated, QUANTITY_COL) ELSE dated
        qp == IF UNIT_PRICE_COL \in r.cols
              THEN NumericCol(q, UNIT_PRICE_COL) ELSE q
        subset == {QUANTITY_COL, UNIT_PRICE_COL}
    IN  IF ~(subset \subseteq r.cols) THEN MissingSubsetError(r.cols, subset)
        ELSE
        LET numeric == dropna(qp, subset)
            priced == [i \in 1..Len(numeric) |->
                         (REVENUE_COL :> Mul(numeric[i][QUANTITY_COL],
                                             numeric[i][UNIT_PRICE_COL]))
                         @@ numeric[i]]
            kept == SelectSeq(priced, LAMBDA row : notna(row[REVENUE_COL]))
        IN  Ok(Table(r.cols \cup {REVENUE_COL}, kept))

-----------------------------------------------------------------------------
(* analysis.aggregate_weekly_revenue *)

\* variant: weeks that start on Sunday
WeekStart_sunday(d) == d - ((d + 4) % DaysPerWeek)

\* dates are days since 1970-01-01, a Thursday; to_period("W") is the week
\* that ends on Sunday, and start_time its Monday
WeekStart(d) == d - ((d + 3) % DaysPerWeek)

WeekOf(row) == WeekStart(row[INVOICE_DATE_COL].v)

\* groupby("Week")["Revenue"].sum().reset_index(): one point per key, keys ascending
WeeklyPoints(t) ==
    LET keys == SortedSeq({WeekOf(t.rows[i]) : i \in 1..Len(t.rows)})
    IN  [j \in 1..Len(keys) |->
            [Date |-> keys[j],
             Revenue |-> SumSeq(Column(
                 SelectSeq(t.rows, LAMBDA row : WeekOf(row) = keys[j]),
                 REVENUE_COL))]]

\* On a frame without rows Series.apply returns the period-typed series
\* unchanged, the Date column stays period-typed, and pd.to_datetime (line
\* 30) raises TypeError on period data in the pandas builds that refuse it.
aggregate_weekly_revenue(t) ==
    IF t.rows = <<>> /\ periodRaises THEN Raise("TypeError", {})
    ELSE Ok(WeeklyPoints(t))

-----------------------------------------------------------------------------
(* analysis.compute_core_kpis *)

\* the text values of the model in ascending (lexicographic) order
TextOrder == <<"A", "B", "FR", "UK", "c1", "c2">>

Rank(s) == CHOOSE i \in 1..Len(TextOrder) : TextOrder[i] = s

\* df.groupby(col)["Revenue"].sum(): null keys are dropped
GroupSums(t, col) ==
    LET keys == {t.rows[i][col] : i \in 1..Len(t.rows)} \ {NA}
    IN  {[key |-> key,
          Revenue |-> SumSeq(Column(
              SelectSeq(t.rows, LAMBDA row : row[col] = key), REVENUE_COL))]
         : key \in keys}

\* a comes before b in sort_values(ascending=False): larger sums first, NaN
\* last, equal sums in the order of the (ascending) group keys
Before(a, b) ==
    IF IsNaN(a.Revenue) THEN IsNaN(b.Revenue) /\ Rank(a.key) < Rank(b.key)
    ELSE \/ IsNaN(b.Revenue)
         \/ FloatLt(b.Revenue, a.Revenue)
         \/ a.Revenue = b.Revenue /\ Rank(a.key) < Rank(b.key)

RECURSIVE SortDesc(_)
SortDesc(G) ==
    IF G = {} THEN <<>>
    ELSE LET top == CHOOSE a \in G : \A b \in G \ {a} : Before(a, b)
         IN <<top>> \o SortDesc(G \ {top})

FirstN(s, n) == SubSeq(s, 1, IF Len(s) < n THEN Len(s) ELSE n)

LastN(s, n) == SubSeq(s, IF Len(s) > n THEN Len(s) - n + 1 ELSE 1, Len(s))

\* Series.nlargest(10): largest first, first of equals kept first, NaN sums
\* after every number
nlargest(G) == FirstN(SortDesc(G), TOP_N)

\* float(x) if x else None
FloatOrNone(x) == IF Truthy(x) THEN x ELSE NoneNum

\* total_revenue / num_transactions if num_transactions else 0.0, as the
\* fraction v / d
AvgOrderValue(total, n) ==
    IF n = 0 THEN [k |-> "fin", v |-> 0, d |-> 1]
    ELSE IF IsFinite(total) THEN [k |-> "fin", v |-> total.v, d |-> n]
    ELSE [k |-> total.k, v |-> total.v, d |-> 1]

\* df[col].nunique(): distinct non-null values
nunique(t, col) ==
    Cardinality({t.rows[i][col] : i \in 1..Len(t.rows)} \ {NA})

compute_core_kpis(t) ==
    LET total_revenue == SumSeq(Column(t.rows, REVENUE_COL))
        num_transactions == Len(t.rows)
        by_country == IF COUNTRY_COL \in t.cols
                      THEN SortDesc(GroupSums(t, COUNTRY_COL)) ELSE <<>>
        by_product == IF DESCRIPTION_COL \in t.cols
                      THEN SortDesc(GroupSums(t, DESCRIPTION_COL)) ELSE <<>>
    IN  IF COUNTRY_COL \in t.cols /\ by_country = <<>>
            THEN Raise("IndexError", {})
        ELSE IF DESCRIPTION_COL \in t.cols /\ by_product = <<>>
            THEN Raise("IndexError", {})
        ELSE Ok([
            total_revenue |-> total_revenue,
            num_transactions |-> num_transactions,
            avg_order_value |-> AvgOrderValue(total_revenue, num_transactions),
            top_country |-> IF COUNTRY_COL \in t.cols
                            THEN by_country[1].key ELSE NoneStr,
            top_country_revenue |-> IF COUNTRY_COL \in t.cols
                                    THEN FloatOrNone(by_country[1].Revenue)
                                    ELSE NoneNum,
            top_product |-> IF DESCRIPTION_COL \in t.cols
                            THEN by_product[1].key ELSE NoneStr,
            top_product_revenue |-> IF DESCRIPTION_COL \in t.cols
                                    THEN FloatOrNone(by_product[1].Revenue)
                                    ELSE NoneNum,
            unique_customers |-> IF CUSTOMER_ID_COL \in t.cols
                                 THEN Fin(nunique(t, CUSTOMER_ID_COL))
                                 ELSE NoneNum])


-----------------------------------------------------------------------------
(* anomaly_detector.detect_revenue_anomalies_iforest *)

RECURSIVE InsertByDate(_, _)
\* x placed behind the rows of s that are not later than it
InsertByDate(s, x) ==
    IF s = <<>> THEN <<x>>
    ELSE IF s[Len(s)].Date <= x.Date THEN Append(s, x)
    ELSE Append(InsertByDate(SubSeq(s, 1, Len(s) - 1), x), s[Len(s)])

RECURSIVE SortByDate(_)
\* weekly_df.copy().sort_values("Date").reset_index(drop=True): every row
\* kept, rows of one date in their given order
SortByDate(w) ==
    IF w = <<>> THEN <<>>
    ELSE InsertByDate(SortByDate(SubSeq(w, 1, Len(w) - 1)), w[Len(w)])

\* X = df[["Revenue"]].values
Features(w) == Column(SortByDate(w), "Revenue")

\* IsolationForest.fit validates X: at least one sample, every value finite
FitRaises(X) == Len(X) = 0 \/ \E i \in 1..Len(X) : ~IsFinite(X[i])

\* A fitted forest scores a sample by its feature value alone.  With
\* random_state=42 and n_estimators=200 the trees are a function of X and do
\* not depend on the contamination; which function is left open: any map
\* from the values of X to a score level (a higher level is more normal).
FitChoices(X) == [{X[i].v : i \in 1..Len(X)} -> 0..MaxScore]

\* model.score_samples(X)
score_samples(m, X) == [i \in 1..Len(X) |-> m[X[i].v]]

RECURSIVE InsertSorted(_, _)
InsertSorted(s, x) ==
    IF s = <<>> THEN <<x>>
    ELSE IF x >= s[Len(s)] THEN Append(s, x)
    ELSE Append(InsertSorted(SubSeq(s, 1, Len(s) - 1), x), s[Len(s)])

RECURSIVE SortInts(_)
SortInts(s) ==
    IF s = <<>> THEN <<>>
    ELSE InsertSorted(SortInts(SubSeq(s, 1, Len(s) - 1)), s[Len(s)])

\* variant: the percentile taken at 100 * (1 - contamination)
PercentileIndex_inverted(c, n) == (CDen - c) * (n - 1)

\* the virtual index contamination * (n - 1) of np.percentile, times CDen
PercentileIndex(c, n) == c * (n - 1)

\* offset_ = np.percentile(scores, 100 * contamination), linear
\* interpolation between the two neighbouring order statistics; times CDen
Offset(scores, c) ==
    LET a == SortInts(scores)
        n == Len(a)
        idx == PercentileIndex(c, n)
        lo == idx \div CDen
        rem == idx % CDen
        hi == IF lo + 1 < n THEN lo + 1 ELSE n - 1
    IN  CDen * a[lo + 1] + rem * (a[hi + 1] - a[lo + 1])

\* model.decision_function(X) = score_samples(X) - offset_, times CDen
decision_function(m, X, c) ==
    LET s == score_samples(m, X)
        off == Offset(s, c)
    IN  [i \in 1..Len(X) |-> CDen * s[i] - off]

\* model.predict(X): -1 where the decision function is negative, else 1
predict(m, X, c) ==
    LET dec == decision_function(m, X, c)
    IN  [i \in 1..Len(X) |-> IF dec[i] < 0 THEN -1 ELSE 1]

\* m is the forest that fit(X) builds
detect_revenue_anomalies_iforest(weekly, c, m) ==
    LET d == SortByDate(weekly)
        X == Features(weekly)
    IN  IF FitRaises(X) THEN Raise("ValueError", {})
        ELSE
        LET flag == predict(m, X, c)
            score == decision_function(m, X, c)
            full == [i \in 1..Len(d) |->
                       [Date |-> d[i].Date, Revenue |-> d[i].Revenue,
                        anomaly_flag |-> flag[i], anomaly_score |-> score[i]]]
            anomalies == SelectSeq(full, LAMBDA p : p.anomaly_flag = -1)
        IN  Ok([i \in 1..Len(anomalies) |->
                  [Date |-> anomalies[i].Date,
                   Revenue |-> anomalies[i].Revenue,
                   anomaly_score |-> anomalies[i].anomaly_score]])

-----------------------------------------------------------------------------
(* analysis.build_summary *)

\* the body of build_summary; weekly is the outcome of the (memoized) call
\* of aggregate_weekly_revenue(df), m the forest fitted to its result
build_summary(t, c, weekly, m) ==
    LET core_kpis == compute_core_kpis(t)
        anomalies == detect_revenue_anomalies_iforest(weekly.value, c, m)
    IN  IF weekly.tag = "raise" THEN weekly
        ELSE IF core_kpis.tag = "raise" THEN core_kpis
        ELSE IF anomalies.tag = "raise" THEN anomalies
        ELSE Ok([
            core_kpis |-> core_kpis.value,
            recent_trend |-> LastN(weekly.value, TREND_WEEKS),
            anomalies |-> anomalies.value,
            top_products_df |-> IF DESCRIPTION_COL \in t.cols
                                THEN nlargest(GroupSums(t, DESCRIPTION_COL))
                                ELSE <<>>,
            top_countries_df |-> IF COUNTRY_COL \in t.cols
                                 THEN nlargest(GroupSums(t, COUNTRY_COL))
                                 ELSE <<>>])

-----------------------------------------------------------------------------
(* st.cache_data: a store from the hashed arguments to the returned value *)

\* Streamlit's hash of a DataFrame argument: the shape, the column names
\* and dtypes, and the rows with their index labels; of a frame of
\* PANDAS_ROWS_LARGE rows or more only the rows that
\* sample(n=PANDAS_SAMPLE_SIZE, random_state=0) draws, which are the same
\* positions for every frame of one length.  The dtype of a column follows
\* from its name and cells here, so the names stand for the dtypes.
HashFrame(t) ==
    LET n == Len(t.rows)
    IN  [shape |-> <<n, Cardinality(t.cols)>>,
         dtypes |-> t.cols,
         rows |-> IF n >= PANDAS_ROWS_LARGE
                  THEN [p \in sampled[n] |-> t.rows[p]]
                  ELSE t.rows]

\* the key of aggregate_weekly_revenue(df)
WeeklyKey(t) == HashFrame(t)

\* the key of build_summary(df, contamination)
SummaryKey(t, c) == <<HashFrame(t), c>>

\* the forests that fit(X) can return, given those already fitted
ModelsFor(X) == IF X \in DOMAIN forest THEN {forest[X]} ELSE FitChoices(X)

\* aggregate_weekly_revenue(t) through its cache; a call that raises
\* stores nothing
CachedAggregate(t) ==
    IF WeeklyKey(t) \in DOMAIN cacheWeekly
    THEN [result |-> Ok(cacheWeekly[WeeklyKey(t)]), cache |-> cacheWeekly,
          ran |-> {}]
    ELSE LET w == aggregate_weekly_revenue(t)
         IN [result |-> w,
             cache |-> IF w.tag = "ok"
                       THEN cacheWeekly @@ (WeeklyKey(t) :> w.value)
                       ELSE cacheWeekly,
             ran |-> {"aggregate_weekly_revenue"}]

\* the cells of a table, index labels left aside
Cells(t) ==
    [cols |-> t.cols,
     rows |-> [i \in 1..Len(t.rows) |-> Restrict(t.rows[i], t.cols)]]

\* the arguments of a call with the table reduced to its cells
Content(args) ==
    [i \in 1..Len(args) |-> IF i = 1 THEN Cells(args[1]) ELSE args[i]]

\* the record of a call of a decorated function: repeated says that the same
\* function returned before for a table of the same cells and the same
\* parameters
Called(fn, args, result, bodyRan) ==
    [tag |-> "call", fn |-> fn, args |-> args, result |-> result,
     bodyRan |-> bodyRan, repeated |-> <<fn, Content(args)>> \in seen]

Returned(fn, args, result) ==
    IF result.tag = "ok" THEN {<<fn, Content(args)>>} ELSE {}

\* a call aggregate_weekly_revenue(t) of the decorated function
CallAggregate(t) ==
    LET a == CachedAggregate(t)
    IN  /\ weekly_df' = IF a.result.tag = "ok" THEN a.result.value
                        ELSE weekly_df
        /\ cacheWeekly' = a.cache
        /\ ran' = ran \cup a.ran
        /\ ret' = Called("aggregate_weekly_revenue", <<t>>, a.result,
                         a.ran # {})
        /\ seen' = seen
               \cup Returned("aggregate_weekly_revenue", <<t>>, a.result)
        /\ UNCHANGED <<cacheSummary, forest>>

\* a call build_summary(t, c) of the decorated function
CallBuildSummary(t, c) ==
    IF SummaryKey(t, c) \in DOMAIN cacheSummary
    THEN /\ summary' = Ok(cacheSummary[SummaryKey(t, c)])
         /\ ret' = Called("build_summary", <<t, c>>, summary', FALSE)
         /\ seen' = seen \cup Returned("build_summary", <<t, c>>, summary')
         /\ UNCHANGED <<cacheWeekly, cacheSummary, forest, ran>>
    ELSE LET a == CachedAggregate(t)
             aggOk == a.result.tag = "ok"
             X == IF aggOk THEN Features(a.result.value) ELSE <<>>
             kpisOk == aggOk /\ compute_core_kpis(t).tag = "ok"
             fitted == kpisOk /\ ~FitRaises(X)
         IN \E m \in ModelsFor(X) :
              LET res == build_summary(t, c, a.result, m)
              IN /\ summary' = res
                 /\ cacheWeekly' = a.cache
                 /\ cacheSummary' = IF res.tag = "ok"
                        THEN cacheSummary @@ (SummaryKey(t, c) :> res.value)
                        ELSE cacheSummary
                 /\ forest' = IF fitted /\ X \notin DOMAIN forest
                              THEN forest @@ (X :> m) ELSE forest
                 /\ ran' = ran \cup a.ran \cup {"build_summary"}
                        \cup (IF aggOk THEN {"compute_core_kpis"} ELSE {})
                        \cup (IF kpisOk
                              THEN {"detect_revenue_anomalies_iforest"}
                              ELSE {})
                 /\ ret' = Called("build_summary", <<t, c>>, res, TRUE)
                 /\ seen' = seen
                        \cup Returned("aggregate_weekly_revenue", <<t>>,
                                      a.result)
                        \cup Returned("build_summary", <<t, c>>, res)

-----------------------------------------------------------------------------
(* the uploads the model draws from *)

RowOf(d, q, p, co, de, cu) ==
    (INVOICE_DATE_COL :> d) @@ (QUANTITY_COL :> q) @@ (UNIT_PRICE_COL :> p)
    @@ (COUNTRY_COL :> co) @@ (DESCRIPTION_COL :> de) @@ (CUSTOMER_ID_COL :> cu)

RawRows(cols, D, Q, P, CO, DE, CU) ==
    {Restrict(RowOf(d, q, p, co, de, cu), cols) :
        d \in D, q \in Q, p \in P, co \in CO, de \in DE, cu \in CU}

SeqsUpTo(S, n) == UNION {[1..k -> S] : k \in 0..n}

TablesOver(cols, rowset) ==
    {Table(cols, rows) : rows \in SeqsUpTo(rowset, MaxRows)}

\* Monday 1970-01-05, Sunday 1970-01-11, Monday 1970-01-12
Mon1 == Day(4)
Sun1 == Day(10)
Mon2 == Day(11)

\* uploads with every required column: cells that parse, cells that do not,
\* empty cells, infinities
CleanUploads ==
    TablesOver(RequiredCols,
        RawRows(RequiredCols, {Mon1},
                {Fin(0), Fin(2), PosInf, NaN, Text},
                {Fin(1), PosInf}, {NA}, {NA}, {NA}))

\* uploads whose rows fall in two weeks, in any order, some with a date
\* that does not parse
WeekUploads ==
    TablesOver(RequiredCols,
        RawRows(RequiredCols, {Mon1, Sun1, Mon2, Text},
                {Fin(1), PosInf, NegInf}, {Fin(1)},
                {NA}, {NA}, {NA}))

\* uploads from which required columns have been dropped
DroppedUploads ==
    UNION {TablesOver(S \cup O,
               RawRows(S \cup O, {Mon1, Text}, {Fin(1)}, {Fin(1)},
                       {"UK"}, {NA}, {NA}))
           : S \in (SUBSET RequiredCols) \ {RequiredCols},
             O \in SUBSET {COUNTRY_COL}}

\* uploads with or without the Country and Description columns, null cells
\* included, and revenues that sum to zero or below
KpiUploads ==
    UNION {TablesOver(RequiredCols \cup O,
               RawRows(RequiredCols \cup O, {Mon1},
                       {Fin(0), Fin(1), Fin(-1)}, {Fin(1)},
                       {"UK", "FR", NA}, {"A", NA}, {NA}))
           : O \in SUBSET {COUNTRY_COL, DESCRIPTION_COL}}

\* uploads with the CustomerID column
CustomerUploads ==
    UNION {TablesOver(RequiredCols \cup {CUSTOMER_ID_COL} \cup O,
               RawRows(RequiredCols \cup {CUSTOMER_ID_COL} \cup O, {Mon1},
                       {Fin(1)}, {Fin(1)}, {"UK"}, {"A"}, {"c1", "c2", NA}))
           : O \in SUBSET {COUNTRY_COL, DESCRIPTION_COL}}

\* uploads whose InvoiceDate cells are numbers
NumericDateUploads ==
    TablesOver(RequiredCols,
        RawRows(RequiredCols, {Fin(5), Fin(-1)}, {Fin(1)}, {Fin(1)},
                {NA}, {NA}, {NA}))

\* uploads that bring a Revenue column of their own
RevenueUploads ==
    TablesOver(RequiredCols \cup {REVENUE_COL},
        {Restrict(RowOf(Mon1, Fin(2), Fin(3), NA, NA, NA), RequiredCols)
            @@ (REVENUE_COL :> r) : r \in {Fin(99), Text}})

Uploads == CleanUploads \cup WeekUploads \cup DroppedUploads
           \cup KpiUploads \cup CustomerUploads
           \cup NumericDateUploads \cup RevenueUploads

\* what sample(random_state=0) may draw for the large frames that come of
\* the uploads U: PANDAS_SAMPLE_SIZE positions for each length, which ones is
\* left open
SampleChoices(U) ==
    LET lengths == {n \in 1..PANDAS_ROWS_LARGE + MaxRows :
                      /\ n >= PANDAS_ROWS_LARGE
                      /\ \E t \in U : n <= Len(t.rows)}
    IN  {f \in [lengths -> SUBSET (1..PANDAS_ROWS_LARGE + MaxRows)] :
           \A n \in lengths : /\ f[n] \subseteq 1..n
                               /\ Cardinality(f[n]) = PANDAS_SAMPLE_SIZE}

\* the slider of main: 0.01 (its default) and 0.05 (its maximum)
SliderValues == {2, 10}

\* contamination rates a caller of the detector may pass: 0.01, 0.05, 0.4
Contaminations == {2, 10, 80}

-----------------------------------------------------------------------------
(* main_app.main, lines 59-73, and a direct caller of build_summary *)

Fresh ==
    /\ pc = "start"
    /\ df = NoResult
    /\ weekly_df = <<>>
    /\ summary = NoResult
    /\ cacheWeekly = <<>>
    /\ cacheSummary = <<>>
    /\ forest = <<>>
    /\ ran = {}
    /\ ret = NoResult
    /\ seen = {}
    /\ anoms = <<>>
    /\ runs = 1

Init ==
    /\ periodRaises \in BOOLEAN
    /\ sampled \in SampleChoices(Uploads)
    /\ raw \in Uploads
    /\ cont \in SliderValues
    /\ Fresh

\* df = load_transactions(uploaded_file); an exception ends the run in the
\* except branch
Load ==
    /\ pc = "start"
    /\ df' = load_transactions(raw)
    /\ pc' = IF df'.tag = "raise" THEN "failed" ELSE "loaded"
    /\ UNCHANGED <<periodRaises, sampled, runs, raw, cont, weekly_df, summary,
                   cacheWeekly, cacheSummary, forest, ran, ret, seen, anoms>>

\* if df.empty: st.error(...); return
MainEmpty ==
    /\ pc = "loaded"
    /\ df.value.rows = <<>>
    /\ pc' = "empty"
    /\ UNCHANGED <<periodRaises, sampled, runs, raw, cont, df, weekly_df,
                   summary, cacheWeekly, cacheSummary, forest, ran, ret, seen,
                   anoms>>

\* weekly_df = aggregate_weekly_revenue(df)
MainAggregate ==
    /\ pc = "loaded"
    /\ df.value.rows # <<>>
    /\ CallAggregate(df.value)
    /\ pc' = "aggregated"
    /\ UNCHANGED <<periodRaises, sampled, runs, raw, cont, df, summary,
                   anoms>>

\* summary = build_summary(df, contamination_rate); an exception ends the
\* run in the except branch
MainSummary ==
    /\ pc = "aggregated"
    /\ CallBuildSummary(df.value, cont)
    /\ pc' = IF summary'.tag = "raise" THEN "failed" ELSE "done"
    /\ UNCHANGED <<periodRaises, sampled, runs, raw, cont, df, weekly_df,
                   anoms>>

\* a caller that hands the cleaned table straight to build_summary, without
\* main's df.empty guard
ApiSummary ==
    /\ pc = "loaded"
    /\ CallBuildSummary(df.value, cont)
    /\ pc' = IF summary'.tag = "raise" THEN "raised" ELSE "returned"
    /\ UNCHANGED <<periodRaises, sampled, runs, raw, cont, df, weekly_df,
                   anoms>>

Next == Load \/ MainEmpty \/ MainAggregate \/ MainSummary \/ ApiSummary

Spec == Init /\ [][Next]_vars

-----------------------------------------------------------------------------
(* a session: Streamlit reruns main on every new upload or slider move, and
   the st.cache_data stores outlive the runs *)

CacheRow(d, q) == Restrict(RowOf(d, Fin(q), Fin(1), NA, NA, NA), RequiredCols)

\* a large upload: one row in the first week, the others in the second
LargeRows ==
    [i \in 1..PANDAS_ROWS_LARGE |->
        CacheRow(IF i = 1 THEN Mon1 ELSE Mon2, 1)]

\* an upload without rows; the large upload; the large upload with one
\* quantity changed; the large upload with one date that does not parse, so
\* that the same cells are left under different index labels
CacheUploads ==
    {Table(RequiredCols, <<>>), Table(RequiredCols, LargeRows)}
    \cup {Table(RequiredCols,
                [LargeRows EXCEPT ![p] = [@ EXCEPT ![QUANTITY_COL] = Fin(2)]])
          : p \in 1..2}
    \cup {Table(RequiredCols,
                [LargeRows EXCEPT ![p] = CacheRow(Text, 1),
                                  ![3 - p] = CacheRow(Mon2, 1)])
          : p \in 1..2}

InitCache ==
    /\ periodRaises \in BOOLEAN
    /\ sampled \in SampleChoices(CacheUploads)
    /\ raw \in CacheUploads
    /\ cont \in SliderValues
    /\ Fresh

Rerun ==
    /\ runs < MaxRuns
    /\ pc \in {"failed", "empty", "done", "returned", "raised"}
    /\ raw' \in CacheUploads
    /\ cont' \in SliderValues
    /\ pc' = "start"
    /\ df' = NoResult
    /\ weekly_df' = <<>>
    /\ summary' = NoResult
    /\ ran' = {}
    /\ ret' = NoResult
    /\ runs' = runs + 1
    /\ UNCHANGED <<periodRaises, sampled, cacheWeekly, cacheSummary, forest,
                   seen, anoms>>

NextCache == Next \/ Rerun

SpecCache == InitCache /\ [][NextCache]_vars

-----------------------------------------------------------------------------
(* the detector called on a weekly series at several contamination rates *)

\* series of consecutive weeks from Monday 1970-01-05
WeeklySeries ==
    UNION {{[i \in 1..k |-> [Date |-> 4 + DaysPerWeek * (i - 1),
                              Revenue |-> f[i]]]
            : f \in [1..k -> {Fin(1), Fin(2), Fin(3)}]}
           : k \in 0..MaxWeeks}

\* series handed to the detector as a caller may build them: rows out of
\* date order and rows of one date
UnorderedSeries ==
    [1..2 -> {[Date |-> d, Revenue |-> r]
              : d \in {Mon1.v, Mon2.v}, r \in {Fin(1), Fin(2)}}]

InitDetect ==
    /\ periodRaises = FALSE
    /\ sampled = <<>>
    /\ runs = 1
    /\ raw = Table({}, <<>>)
    /\ cont \in Contaminations
    /\ pc = "detector"
    /\ df = NoResult
    /\ weekly_df \in WeeklySeries \cup UnorderedSeries
    /\ summary = NoResult
    /\ cacheWeekly = <<>>
    /\ cacheSummary = <<>>
    /\ forest = <<>>
    /\ ran = {}
    /\ ret = NoResult
    /\ seen = {}
    /\ anoms = <<>>

\* anomalies = detect_revenue_anomalies_iforest(weekly_df, contamination=cont)
DetectCall ==
    /\ pc = "detector"
    /\ cont \notin DOMAIN anoms
    /\ LET X == Features(weekly_df)
       IN \E m \in ModelsFor(X) :
            /\ anoms' = anoms @@
                 (cont :> detect_revenue_anomalies_iforest(weekly_df, cont, m))
            /\ forest' = IF ~FitRaises(X) /\ X \notin DOMAIN forest
                         THEN forest @@ (X :> m) ELSE forest
    /\ ran' = ran \cup {"detect_revenue_anomalies_iforest"}
    /\ UNCHANGED <<periodRaises, sampled, runs, raw, cont, pc, df, weekly_df,
                   summary, cacheWeekly, cacheSummary, ret, seen>>

\* the caller picks another contamination rate
SetContamination ==
    /\ pc = "detector"
    /\ cont \in DOMAIN anoms
    /\ cont' \in Contaminations \ DOMAIN anoms
    /\ UNCHANGED <<periodRaises, sampled, runs, raw, pc, df, weekly_df,
                   summary, cacheWeekly, cacheSummary, forest, ran, ret, seen,
                   anoms>>

NextDetect == DetectCall \/ SetContamination

SpecDetect == InitDetect /\ [][NextDetect]_vars

-----------------------------------------------------------------------------
(* Properties *)

MissingRequired == RequiredCols \ raw.cols

\* C1: an upload from which a required column has been dropped ends
\* load_transactions in an error that names missing required columns only,
\* before any aggregation has run, and no canonical table is returned.
C1_SchemaErrorBeforeAggregation ==
    (pc # "start" /\ MissingRequired # {}) =>
        /\ pc = "failed"
        /\ df.tag = "raise"
        /\ df.names # {}
        /\ df.names \subseteq MissingRequired
        /\ ran = {}
        /\ weekly_df = <<>>
        /\ summary = NoResult

C1_Witness ==
    /\ pc = "failed"
    /\ MissingRequired = {QUANTITY_COL}
    /\ df.tag = "raise"
    /\ df.exc = "KeyError"
    /\ df.names = {QUANTITY_COL}

\* C2: every row of the canonical table has a non-null timestamp, quantity
\* and unit price and a finite revenue equal to quantity x unit price.
C2_CanonicalRowsFinite ==
    df.tag = "ok" =>
        \A i \in 1..Len(df.value.rows) :
            LET row == df.value.rows[i]
            IN  /\ notna(row[INVOICE_DATE_COL])
                /\ notna(row[QUANTITY_COL])
                /\ notna(row[UNIT_PRICE_COL])
                /\ IsFinite(row[REVENUE_COL])
                /\ row[REVENUE_COL] = Mul(row[QUANTITY_COL], row[UNIT_PRICE_COL])

\* C3: build_summary called on an empty canonical table returns (an
\* empty-result indication); no exception escapes from it.
C3_EmptyTableSummaryReturns ==
    (pc \in {"returned", "raised"} /\ df.value.rows = <<>>) =>
        summary.tag = "ok"

\* C4: for every table aggregate_weekly_revenue has been applied to, the
\* weekly revenues sum to the total_revenue compute_core_kpis reports.
C4_WeeklySumEqualsTotal ==
    (df.tag = "ok" /\ WeeklyKey(df.value) \in DOMAIN cacheWeekly) =>
        LET t == df.value
            k == compute_core_kpis(t)
        IN  ("compute_core_kpis" \in ran /\ k.tag = "ok") =>
                FloatEq(SumSeq(Column(cacheWeekly[WeeklyKey(t)], "Revenue")),
                        k.value.total_revenue)

IsMonday(d) == (d + 3) % 7 = 0

\* C5: every result of aggregate_weekly_revenue is strictly ascending by
\* date, each point starts a Monday-start week that holds a transaction, and
\* every transaction lies in the week of exactly one point.
C5_WeeklyPointsOrderedDistinct ==
    (df.tag = "ok" /\ WeeklyKey(df.value) \in DOMAIN cacheWeekly) =>
        LET t == df.value
            w == cacheWeekly[WeeklyKey(t)]
            days == {t.rows[i][INVOICE_DATE_COL].v : i \in 1..Len(t.rows)}
        IN  /\ \A i, j \in 1..Len(w) : i < j => w[i].Date < w[j].Date
            /\ \A i \in 1..Len(w) :
                 /\ IsMonday(w[i].Date)
                 /\ \E d \in days : w[i].Date <= d /\ d <= w[i].Date + 6
            /\ \A d \in days :
                 Cardinality({i \in 1..Len(w) :
                                w[i].Date <= d /\ d <= w[i].Date + 6}) = 1

C5_Witness ==
    /\ df.tag = "ok"
    /\ WeeklyKey(df.value) \in DOMAIN cacheWeekly
    /\ Len(df.value.rows) = 2
    /\ df.value.rows[1][INVOICE_DATE_COL].v = 11
    /\ df.value.rows[2][INVOICE_DATE_COL].v = 10
    /\ Len(cacheWeekly[WeeklyKey(df.value)]) = 2
    /\ cacheWeekly[WeeklyKey(df.value)][1].Date = 4
    /\ cacheWeekly[WeeklyKey(df.value)][2].Date = 11

\* the KPI pair of a present column is the category with the largest summed
\* revenue and that sum, as a number
TopIsLargest(t, col, name, rev) ==
    /\ name # NoneStr
    /\ rev # NoneNum
    /\ \E g \in GroupSums(t, col) :
         /\ g.key = name
         /\ g.Revenue = rev
         /\ \A h \in GroupSums(t, col) : ~FloatLt(rev, h.Revenue)

KpisApplied ==
    /\ df.tag = "ok"
    /\ df.value.rows # <<>>
    /\ "compute_core_kpis" \in ran

\* C6: on a non-empty canonical table that lacks an optional column,
\* compute_core_kpis returns, the KPIs of each absent column are None, and
\* every other KPI has its normal value.
C6_MissingOptionalUnavailable ==
    (KpisApplied /\ ~(OptionalCols \subseteq df.value.cols)) =>
        LET t == df.value
            r == compute_core_kpis(t)
            k == r.value
        IN  /\ r.tag = "ok"
            /\ k.total_revenue = SumSeq(Column(t.rows, REVENUE_COL))
            /\ k.num_transactions = Len(t.rows)
            /\ IF COUNTRY_COL \in t.cols
               THEN TopIsLargest(t, COUNTRY_COL, k.top_country,
                                 k.top_country_revenue)
               ELSE k.top_country = NoneStr /\ k.top_country_revenue = NoneNum
            /\ IF DESCRIPTION_COL \in t.cols
               THEN TopIsLargest(t, DESCRIPTION_COL, k.top_product,
                                 k.top_product_revenue)
               ELSE k.top_product = NoneStr /\ k.top_product_revenue = NoneNum
            /\ IF CUSTOMER_ID_COL \in t.cols
               THEN k.unique_customers = Fin(nunique(t, CUSTOMER_ID_COL))
               ELSE k.unique_customers = NoneNum

\* C7: the detector returns an anomaly list, and raises nothing, on every
\* weekly series of fewer than two points.
C7_ShortSeriesNoFault ==
    (pc = "detector" /\ Len(weekly_df) < 2) =>
        \A c \in DOMAIN anoms : anoms[c].tag = "ok"

\* C8: on one weekly series, a larger contamination never flags fewer weeks.
C8_FlaggedMonotoneInContamination ==
    \A c1, c2 \in DOMAIN anoms :
        (c1 <= c2 /\ anoms[c1].tag = "ok" /\ anoms[c2].tag = "ok") =>
            Len(anoms[c1].value) <= Len(anoms[c2].value)

C8_Witness ==
    \E c1, c2 \in DOMAIN anoms :
        /\ c1 < c2
        /\ anoms[c1].tag = "ok"
        /\ anoms[c2].tag = "ok"
        /\ Len(anoms[c1].value) = 1
        /\ Len(anoms[c2].value) = 2

\* the forest fit(X) returns in this behaviour
ModelOf(X) ==
    IF X \in DOMAIN forest THEN forest[X] ELSE CHOOSE m \in FitChoices(X) : TRUE

\* the function bodies applied to the arguments, no store involved
Unmemoized(fn, args) ==
    IF fn = "aggregate_weekly_revenue"
    THEN aggregate_weekly_revenue(args[1])
    ELSE LET w == aggregate_weekly_revenue(args[1])
         IN build_summary(args[1], args[2], w,
                ModelOf(IF w.tag = "ok" THEN Features(w.value) ELSE <<>>))

\* a call returns what its body yields for its own arguments
ResultIsOwn ==
    ret.tag = "call" => ret.result = Unmemoized(ret.fn, ret.args)

\* a call repeated with the cells and parameters of one that returned is
\* served from the store
RepeatNotRecomputed ==
    (ret.tag = "call" /\ ret.repeated) => ~ret.bodyRan

\* C9: every call of a memoized function returns what its body yields for
\* the call's own arguments (a call never receives the result of a call
\* with another table or contamination), and a call repeated with the cells
\* and the contamination of one that returned does not run the body again.
C9_MemoizedEqualsUnmemoized ==
    /\ ResultIsOwn
    /\ RepeatNotRecomputed

\* C10: on a non-empty canonical table with the Country (Description) column
\* and a non-null value in it, top_country_revenue (top_product_revenue) is
\* the largest per-category revenue sum, as a number, never None.
C10_TopRevenueIsNumber ==
    KpisApplied =>
        LET t == df.value
            r == compute_core_kpis(t)
            k == r.value
            named(col) == \E i \in 1..Len(t.rows) : t.rows[i][col] # NA
        IN  /\ (COUNTRY_COL \in t.cols /\ named(COUNTRY_COL)) =>
                 /\ r.tag = "ok"
                 /\ TopIsLargest(t, COUNTRY_COL, k.top_country,
                                 k.top_country_revenue)
            /\ (DESCRIPTION_COL \in t.cols /\ named(DESCRIPTION_COL)) =>
                 /\ r.tag = "ok"
                 /\ TopIsLargest(t, DESCRIPTION_COL, k.top_product,
                                 k.top_product_revenue)

====
